---- MODULE Spec2Model ----
(***************************************************************************)
(* Model of the baseball warehouse pipeline:                               *)
(*   src/1.3_Transform.py    combine_tables_with_union (Union Combiner)    *)
(*   src/1.4_InitializeDW.py BaseballDataWarehouse     (Warehouse Facade)  *)
(*                                                                         *)
(* A table is a record [cols, rows]; rows is a bag (row -> multiplicity),  *)
(* as SQL tables keep duplicate rows.  Only the columns that a statement   *)
(* compares, derives from or joins on are kept; the remaining columns of   *)
(* the CREATE TABLE ... AS SELECT statements are plain renames.            *)
(***************************************************************************)
EXTENDS Integers, Sequences, FiniteSets, Bags, TLC

(***************************************************************************)
(* Bounds of the model.                                                    *)
(***************************************************************************)
\* Rows of the source table an initial store varies.
MaxRows == 2
\* Successive build_data_warehouse calls of one facade.
MaxBuilds == 2
\* Required source tables absent from an initial store.
MaxMissing == 2
\* Days between the earliest and the latest valid game date of a store.
MaxSpan == 3
\* Games of a store whose teams, runs and seasons vary.
MaxGames == 2

(***************************************************************************)
(* SQL values.  NULL is a sentinel of the column's own type so that TLC    *)
(* can compare it with the other values of the column.                     *)
(***************************************************************************)
NullInt == 0 - 1
NullTxt == "<NULL>"

\* Three-valued comparison g.vruns > g.hruns of lines 309-310: NULL operand -> unknown.
SqlGt(a, b) == IF a = NullInt \/ b = NullInt THEN "U" ELSE IF a > b THEN "T" ELSE "F"

\* Three-valued comparison of line 311 (and of the flag tests b.dh = 1).
SqlEq(a, b) == IF a = NullInt \/ b = NullInt THEN "U" ELSE IF a = b THEN "T" ELSE "F"

\* CASE WHEN c THEN 1 ELSE 0 END: only a true condition takes the THEN branch.
CaseWhen(c) == IF c = "T" THEN 1 ELSE 0

\* first || ' ' || last of line 101: NULL if an operand is NULL.
Concat(a, b) == IF a = NullTxt \/ b = NullTxt THEN NullTxt ELSE a \o " " \o b

(***************************************************************************)
(* Bags.                                                                   *)
(***************************************************************************)
RECURSIVE SumOver(_, _)
SumOver(f, S) == IF S = {} THEN 0
                 ELSE LET x == CHOOSE e \in S : TRUE
                      IN f[x] + SumOver(f, S \ {x})

\* The bag of F(x) for x in S, x counted W[x] times (a SELECT without DISTINCT).
BagImage(S, F(_), W) ==
    [y \in {F(x) : x \in S} |-> SumOver(W, {x \in S : F(x) = y})]

\* SELECT <projection F> FROM B.
Project(B, F(_)) == BagImage(DOMAIN B, F, B)

\* SELECT DISTINCT / UNION: every row once.
Distinct(B) == [r \in DOMAIN B |-> 1]

(***************************************************************************)
(* Dates.  A value of gameinfo.date is a record [k, y, m, d]:              *)
(*   k = "null"  NULL                                                      *)
(*   k = "int"   an INTEGER, y = seconds since the epoch                   *)
(*   k = "ymd"   a TEXT of the zero padded form YYYY-MM-DD                 *)
(*   k = "junk"  any other TEXT; y = 0 for one that collates before every  *)
(*               YYYY-MM-DD text ("03/01/2020"), y = 10000 for one that    *)
(*               collates after them ("N/A")                               *)
(***************************************************************************)
NullDate == [k |-> "null", y |-> 0, m |-> 0, d |-> 0]
IntDate(s) == [k |-> "int", y |-> s, m |-> 0, d |-> 0]
Ymd(y, m, d) == [k |-> "ymd", y |-> y, m |-> m, d |-> d]
Junk(pos) == [k |-> "junk", y |-> pos, m |-> 0, d |-> 0]

\* datetime: leap years of the proleptic Gregorian calendar.
IsLeap(y) == (y % 4 = 0) /\ ((y % 100 # 0) \/ (y % 400 = 0))

DaysInMonth(y, m) == IF m = 2 THEN (IF IsLeap(y) THEN 29 ELSE 28)
                     ELSE IF m \in {4, 6, 9, 11} THEN 30 ELSE 31

\* What datetime.strptime(v, "%Y-%m-%d") accepts.
ValidYmd(v) == /\ v.k = "ymd"
               /\ v.y \in 1..9999
               /\ v.m \in 1..12
               /\ v.d \in 1..DaysInMonth(v.y, v.m)

\* current_date += timedelta(days=1)
NextDay(v) == IF v.d < DaysInMonth(v.y, v.m) THEN Ymd(v.y, v.m, v.d + 1)
              ELSE IF v.m < 12 THEN Ymd(v.y, v.m + 1, 1)
              ELSE Ymd(v.y + 1, 1, 1)

RECURSIVE DaysBeforeMonth(_, _)
DaysBeforeMonth(y, m) == IF m = 1 THEN 0
                         ELSE DaysBeforeMonth(y, m - 1) + DaysInMonth(y, m - 1)

DaysBeforeYear(y) == LET p == y - 1
                     IN p * 365 + (p \div 4) - (p \div 100) + (p \div 400)

\* date.toordinal(): day 1 is 0001-01-01.
ToOrdinal(v) == DaysBeforeYear(v.y) + DaysBeforeMonth(v.y, v.m) + v.d

\* date.weekday(): Monday is 0.
Weekday(v) == (ToOrdinal(v) + 6) % 7

\* Number of ISO weeks of a year (52 or 53).
IsoWeeksInYear(y) ==
    LET jan1 == Weekday(Ymd(y, 1, 1))
    IN IF jan1 = 3 \/ (jan1 = 2 /\ IsLeap(y)) THEN 53 ELSE 52

\* date.isocalendar()[1]
IsoWeek(v) ==
    LET doy == DaysBeforeMonth(v.y, v.m) + v.d
        w == (doy - (Weekday(v) + 1) + 10) \div 7
    IN IF w < 1 THEN IsoWeeksInYear(v.y - 1)
       ELSE IF w > IsoWeeksInYear(v.y) THEN 1 ELSE w

\* Mutant of DateLeq: the loop stops one day early (current_date < end_date).
DateLt(a, b) == ToOrdinal(a) < ToOrdinal(b)

\* current_date <= end_date
DateLeq(a, b) == ToOrdinal(a) <= ToOrdinal(b)

SecondsPerDay == 86400
EpochDay == Ymd(1970, 1, 1)

RECURSIVE AddDays(_, _)
AddDays(v, n) == IF n = 0 THEN v ELSE AddDays(NextDay(v), n - 1)

\* datetime.fromtimestamp(s).strftime("%Y-%m-%d"), for s >= 0, clock on UTC.
FromTimestamp(s) == AddDays(EpochDay, s \div SecondsPerDay)

\* SQLite's order of two non NULL values: INTEGER before TEXT, TEXT bytewise.
SqlLess(a, b) ==
    IF a.k = "int" /\ b.k = "int" THEN a.y < b.y
    ELSE IF a.k = "int" THEN TRUE
    ELSE IF b.k = "int" THEN FALSE
    ELSE \/ a.y < b.y
         \/ a.y = b.y /\ a.m < b.m
         \/ a.y = b.y /\ a.m = b.m /\ a.d < b.d

\* SELECT MIN(date): NULL rows are skipped; NULL when nothing is left.
SqlMin(S) == LET V == {v \in S : v.k # "null"}
             IN IF V = {} THEN NullDate
                ELSE CHOOSE v \in V : \A w \in V : ~ SqlLess(w, v)

\* SELECT MAX(date)
SqlMax(S) == LET V == {v \in S : v.k # "null"}
             IN IF V = {} THEN NullDate
                ELSE CHOOSE v \in V : \A w \in V : ~ SqlLess(v, w)

\* The row of DimDate of one day (lines 199-209).
DateRow(v) ==
    [date_id |-> v, date |-> v, year |-> v.y, month |-> v.m, day |-> v.d,
     day_of_week |-> Weekday(v), week_of_year |-> IsoWeek(v),
     season_period |-> IF 3 <= v.m /\ v.m <= 10 THEN "Regular" ELSE "Offseason"]

(***************************************************************************)
(* The store: tables maps each existing table to [cols, rows]; indexes is  *)
(* the set of existing indexes, each [name, tbl].                          *)
(***************************************************************************)
required_tables == <<"gameinfo", "batting", "pitching", "allplayers", "teamstats", "fielding">>

DimTables == {"DimPlayer", "DimTeam", "DimGame", "DimDate"}
FactTables == {"FactBatting", "FactPitching", "FactGameOutcomes"}
DestTables == DimTables \cup FactTables

\* The columns of the source tables that the build reads.
SourceCols ==
    [gameinfo   |-> {"gid", "date", "season", "vruns", "hruns", "visteam", "hometeam"},
     batting    |-> {"gid", "id", "team", "dh"},
     pitching   |-> {"gid", "id", "team", "wp"},
     allplayers |-> {"id", "first", "last", "bat", "throw", "team"},
     teamstats  |-> {"team"},
     fielding   |-> {"team"}]

Exists(T, n) == n \in DOMAIN T

\* Preparing a statement fails (sqlite3.Error) on a missing table or column.
HasCols(T, n, C) == Exists(T, n) /\ C \subseteq T[n].cols

Table(cols, rows) == [cols |-> cols, rows |-> rows]

\* DROP TABLE IF EXISTS n (the indexes of n go with it, see DropIndexes).
ExecDrop(T, n) == [t \in DOMAIN T \ {n} |-> T[t]]

DropIndexes(I, n) == {i \in I : i.tbl # n}

\* CREATE TABLE n ...: an error, and no change, when n exists already.
ExecCreate(T, n, tbl) == IF Exists(T, n) THEN T ELSE (n :> tbl) @@ T

(***************************************************************************)
(* execute_query (lines 23-35): the statement runs and is committed; on    *)
(* sqlite3.Error the statement is rolled back and None is returned, so a   *)
(* failed statement leaves the store as it was.  Each statement below is   *)
(* the store after execute_query of that statement.                        *)
(***************************************************************************)

\* Lines 97-107: CREATE TABLE DimPlayer AS SELECT DISTINCT ... FROM allplayers.
DimPlayerRow(r) ==
    [player_id |-> r.id, player_name |-> Concat(r.first, r.last),
     first_name |-> r.first, last_name |-> r.last,
     batting_hand |-> r.bat, throwing_hand |-> r.throw]

StmtDimPlayer(T) ==
    IF HasCols(T, "allplayers", {"id", "first", "last", "bat", "throw"})
    THEN ExecCreate(T, "DimPlayer",
             Table({"player_id", "player_name", "first_name", "last_name",
                    "batting_hand", "throwing_hand"},
                   Distinct(Project(T["allplayers"].rows, DimPlayerRow))))
    ELSE T

\* Lines 111-122: the UNION of the seven team columns.
TeamSources ==
    {<<"allplayers", "team">>, <<"gameinfo", "visteam">>, <<"gameinfo", "hometeam">>,
     <<"teamstats", "team">>, <<"batting", "team">>, <<"pitching", "team">>,
     <<"fielding", "team">>}

TeamsOf(T, src) == {r[src[2]] : r \in DOMAIN T[src[1]].rows}

\* Mutant of StmtDimTeam: the fielding table is left out of the UNION.
StmtDimTeamNoFielding(T) ==
    LET S == TeamSources \ {<<"fielding", "team">>}
    IN IF \A src \in S : HasCols(T, src[1], {src[2]})
       THEN ExecCreate(T, "DimTeam",
                Table({"team_id"},
                      SetToBag({[team_id |-> t] :
                                t \in UNION {TeamsOf(T, src) : src \in S}})))
       ELSE T

\* Mutant of StmtDimTeam: the batting teams are read from FactBatting, the
\* table a later statement of the same build drops and creates.
StmtDimTeamFromFacts(T) ==
    LET S == TeamSources \ {<<"batting", "team">>}
    IN IF /\ \A src \in S : HasCols(T, src[1], {src[2]})
          /\ HasCols(T, "FactBatting", {"team_id"})
       THEN ExecCreate(T, "DimTeam",
                Table({"team_id"},
                      SetToBag({[team_id |-> t] :
                                t \in UNION {TeamsOf(T, src) : src \in S}
                                      \cup {r.team_id : r \in DOMAIN T["FactBatting"].rows}})))
       ELSE T

StmtDimTeam(T) ==
    IF \A src \in TeamSources : HasCols(T, src[1], {src[2]})
    THEN ExecCreate(T, "DimTeam",
             Table({"team_id"},
                   SetToBag({[team_id |-> t] :
                             t \in UNION {TeamsOf(T, src) : src \in TeamSources}})))
    ELSE T

\* Lines 126-156: CREATE TABLE DimGame AS SELECT ... FROM gameinfo.
DimGameRow(r) ==
    [game_id |-> r.gid, game_date |-> r.date, season |-> r.season, visitor_runs |-> r.vruns,
     home_runs |-> r.hruns, visiting_team_id |-> r.visteam, home_team_id |-> r.hometeam]

StmtDimGame(T) ==
    IF HasCols(T, "gameinfo", SourceCols["gameinfo"])
    THEN ExecCreate(T, "DimGame",
             Table({"game_id", "game_date", "season", "visitor_runs", "home_runs",
                    "visiting_team_id", "home_team_id"},
                   Project(T["gameinfo"].rows, DimGameRow)))
    ELSE T

\* Lines 160-161: SELECT MIN(date), SELECT MAX(date); ok = FALSE when the
\* query fails and execute_query returns None.
QueryDateBounds(T) ==
    IF HasCols(T, "gameinfo", {"date"})
    THEN LET D == {r.date : r \in DOMAIN T["gameinfo"].rows}
         IN [ok |-> TRUE, min |-> SqlMin(D), max |-> SqlMax(D)]
    ELSE [ok |-> FALSE, min |-> NullDate, max |-> NullDate]

\* Lines 182-193: CREATE TABLE DimDate (date_id TEXT PRIMARY KEY, ...).
StmtCreateDimDate(T) ==
    ExecCreate(T, "DimDate",
        Table({"date_id", "date", "year", "month", "day", "day_of_week",
               "week_of_year", "season_period"}, EmptyBag))

\* Mutant of StmtInsertDate: date_id is no primary key.
StmtInsertDateNoKey(T, v) ==
    IF Exists(T, "DimDate")
    THEN [T EXCEPT !["DimDate"].rows = @ (+) SetToBag({DateRow(v)})]
    ELSE T

\* Lines 207-209: INSERT INTO DimDate VALUES (...); fails when DimDate is
\* missing or the primary key date_id is taken.
StmtInsertDate(T, v) ==
    IF /\ Exists(T, "DimDate")
       /\ \A r \in DOMAIN T["DimDate"].rows : r.date_id # v
    THEN [T EXCEPT !["DimDate"].rows = @ (+) SetToBag({DateRow(v)})]
    ELSE T

\* Lines 226-257: batting b JOIN gameinfo g ON b.gid = g.gid.
JoinOnGid(T, src) ==
    {p \in (DOMAIN T[src].rows) \X (DOMAIN T["gameinfo"].rows) :
        p[1].gid # NullTxt /\ p[1].gid = p[2].gid}

PairWeight(T, src) ==
    [p \in JoinOnGid(T, src) |-> T[src].rows[p[1]] * T["gameinfo"].rows[p[2]]]

FactBattingRow(p) ==
    [game_id |-> p[1].gid, player_id |-> p[1].id, team_id |-> p[1].team,
     game_date |-> p[2].date, is_dh |-> CaseWhen(SqlEq(p[1].dh, 1))]

StmtFactBatting(T) ==
    IF HasCols(T, "batting", SourceCols["batting"]) /\ HasCols(T, "gameinfo", {"gid", "date"})
    THEN ExecCreate(T, "FactBatting",
             Table({"game_id", "player_id", "team_id", "game_date", "is_dh"},
                   BagImage(JoinOnGid(T, "batting"), FactBattingRow,
                            PairWeight(T, "batting"))))
    ELSE T

\* Lines 265-291: pitching p JOIN gameinfo g ON p.gid = g.gid.
FactPitchingRow(p) ==
    [game_id |-> p[1].gid, player_id |-> p[1].id, team_id |-> p[1].team,
     game_date |-> p[2].date, is_winning_pitcher |-> CaseWhen(SqlEq(p[1].wp, 1))]

StmtFactPitching(T) ==
    IF HasCols(T, "pitching", SourceCols["pitching"]) /\ HasCols(T, "gameinfo", {"gid", "date"})
    THEN ExecCreate(T, "FactPitching",
             Table({"game_id", "player_id", "team_id", "game_date", "is_winning_pitcher"},
                   BagImage(JoinOnGid(T, "pitching"), FactPitchingRow,
                            PairWeight(T, "pitching"))))
    ELSE T

\* Lines 299-315: CREATE TABLE FactGameOutcomes AS SELECT ... FROM gameinfo g.
FactGameOutcomesRow(g) ==
    [game_id |-> g.gid, game_date |-> g.date, season |-> g.season,
     visiting_team_id |-> g.visteam, home_team_id |-> g.hometeam,
     visiting_runs |-> g.vruns, home_runs |-> g.hruns,
     visiting_win |-> CaseWhen(SqlGt(g.vruns, g.hruns)),
     home_win |-> CaseWhen(SqlGt(g.hruns, g.vruns)),
     tie |-> CaseWhen(SqlEq(g.vruns, g.hruns))]

StmtFactGameOutcomes(T) ==
    IF HasCols(T, "gameinfo", SourceCols["gameinfo"])
    THEN ExecCreate(T, "FactGameOutcomes",
             Table({"game_id", "game_date", "season", "visiting_team_id", "home_team_id",
                    "visiting_runs", "home_runs", "visiting_win", "home_win", "tie"},
                   Project(T["gameinfo"].rows, FactGameOutcomesRow)))
    ELSE T

\* Lines 328-342: the nine CREATE INDEX IF NOT EXISTS statements.
IndexDefs ==
    {[name |-> "idx_player_id", tbl |-> "DimPlayer", col |-> "player_id"],
     [name |-> "idx_team_id", tbl |-> "DimTeam", col |-> "team_id"],
     [name |-> "idx_game_id", tbl |-> "DimGame", col |-> "game_id"],
     [name |-> "idx_game_date", tbl |-> "DimGame", col |-> "game_date"],
     [name |-> "idx_fact_batting_game", tbl |-> "FactBatting", col |-> "game_id"],
     [name |-> "idx_fact_batting_player", tbl |-> "FactBatting", col |-> "player_id"],
     [name |-> "idx_fact_pitching_game", tbl |-> "FactPitching", col |-> "game_id"],
     [name |-> "idx_fact_pitching_player", tbl |-> "FactPitching", col |-> "player_id"],
     [name |-> "idx_fact_outcomes_game", tbl |-> "FactGameOutcomes", col |-> "game_id"]}

\* An index statement fails, and is skipped, when its table or column is missing.
StmtIndexes(T, I) == I \cup {i \in IndexDefs : HasCols(T, i.tbl, {i.col})}

(***************************************************************************)
(* Initial stores.  Each family varies one source table over a small pool  *)
(* and takes the default rows for the others.                              *)
(***************************************************************************)
\* The season of a game row is the year of its date, NULL without one;
\* SeasonStores below vary it on its own.
GameRow(gid, date, vruns, hruns, vis, home) ==
    [gid |-> gid, date |-> date, season |-> IF date.k = "ymd" THEN date.y ELSE NullInt,
     vruns |-> vruns, hruns |-> hruns, visteam |-> vis, hometeam |-> home]
BatRow(gid, id, team, dh) == [gid |-> gid, id |-> id, team |-> team, dh |-> dh]
PitchRow(gid, id, team, wp) == [gid |-> gid, id |-> id, team |-> team, wp |-> wp]
PlayerRow(id, last, bat, team) ==
    [id |-> id, first |-> "al", last |-> last, bat |-> bat, throw |-> "R", team |-> team]
TeamRow(team) == [team |-> team]

Gid(i) == "g" \o ToString(i)

\* The bag of the rows a[1], ..., a[n].
RECURSIVE BagOfSeq(_)
BagOfSeq(a) == IF Len(a) = 0 THEN EmptyBag
               ELSE SetToBag({Head(a)}) (+) BagOfSeq(Tail(a))

DefaultRows ==
    [gameinfo   |-> SetToBag({GameRow("g1", Ymd(2020, 2, 28), 1, 0, "A", "B"),
                              GameRow("g2", Ymd(2020, 3, 1), 1, 1, "B", "A")}),
     batting    |-> SetToBag({BatRow("g1", "p1", "A", 1),
                              BatRow("g9", "p2", "B", NullInt)}),
     pitching   |-> SetToBag({PitchRow("g2", "p2", "B", 0)}),
     allplayers |-> SetToBag({PlayerRow("p1", "x", "R", "A")}),
     teamstats  |-> SetToBag({TeamRow("A")}),
     fielding   |-> SetToBag({TeamRow("B")})]

SourceNames == {required_tables[i] : i \in 1..Len(required_tables)}

\* A store holding the six source tables with the given rows.
Sources(rows) == [n \in SourceNames |-> Table(SourceCols[n], rows[n])]

DateBases == {Ymd(2020, 2, 27), Ymd(2021, 12, 30)}

DatePool ==
    {AddDays(b, i) : b \in DateBases, i \in 0..MaxSpan}
    \cup {Ymd(2020, 2, 30), Junk(0), Junk(10000), NullDate,
          IntDate(0), IntDate(2 * SecondsPerDay + 5)}

WithinSpan(a) ==
    \A i, j \in DOMAIN a :
        ValidYmd(a[i]) /\ ValidYmd(a[j]) => ToOrdinal(a[j]) - ToOrdinal(a[i]) <= MaxSpan

\* Stores whose gameinfo.date varies.
DateStores ==
    {Sources([DefaultRows EXCEPT !.gameinfo =
          BagOfSeq([i \in DOMAIN a |-> GameRow(Gid(i), a[i], 1, 0, "A", "B")])]) :
       a \in {b \in UNION {[1..n -> DatePool] : n \in 0..MaxRows} : WithinSpan(b)}}

RunPool == {NullInt, 0, 1}

\* Stores whose gameinfo.vruns and hruns vary.
OutcomeStores ==
    {Sources([DefaultRows EXCEPT !.gameinfo =
          BagOfSeq([i \in DOMAIN a |->
              GameRow(Gid(i), AddDays(Ymd(2020, 2, 27), i), a[i][1], a[i][2], "A", "B")])]) :
       a \in UNION {[1..n -> RunPool \X RunPool] : n \in 1..MaxRows}}

TeamPool == {"A", "B", NullTxt}

\* Stores whose seven team columns vary.
TeamStores ==
    {Sources([gameinfo   |-> SetToBag({GameRow("g1", Ymd(2020, 2, 28), 1, 0,
                                               t[<<"gameinfo", "visteam">>],
                                               t[<<"gameinfo", "hometeam">>])}),
              batting    |-> SetToBag({BatRow("g1", "p1", t[<<"batting", "team">>], 1)}),
              pitching   |-> SetToBag({PitchRow("g1", "p2", t[<<"pitching", "team">>], 1)}),
              allplayers |-> SetToBag({PlayerRow("p1", "x", "R", t[<<"allplayers", "team">>])}),
              teamstats  |-> SetToBag({TeamRow(t[<<"teamstats", "team">>])}),
              fielding   |-> SetToBag({TeamRow(t[<<"fielding", "team">>])})]) :
       t \in [TeamSources -> TeamPool]}

PlayerPool == {PlayerRow(id, "x", bat, team) : id \in {"p1", "p2"}, bat \in {"R", "L"},
                                               team \in {"A", "B"}}

\* Stores whose allplayers rows vary, repeated rows included.
PlayerStores ==
    {Sources([DefaultRows EXCEPT !.allplayers = BagOfSeq(a)]) :
       a \in UNION {[1..n -> PlayerPool] : n \in 0..MaxRows}}

\* Stores lacking some of the required source tables.
MissingStores ==
    {[n \in SourceNames \ M |-> Sources(DefaultRows)[n]] :
       M \in {X \in SUBSET SourceNames : Cardinality(X) \in 1..MaxMissing}}

\* Stores in which one source table lacks one of the columns the build reads.
DriftPool == {<<"gameinfo", "date">>, <<"gameinfo", "hruns">>, <<"allplayers", "bat">>,
              <<"batting", "dh">>, <<"pitching", "gid">>, <<"fielding", "team">>}

Without(B, c) == BagImage(DOMAIN B, LAMBDA r : [k \in DOMAIN r \ {c} |-> r[k]], B)

DriftStores ==
    {[Sources(DefaultRows) EXCEPT ![x[1]] =
          Table(SourceCols[x[1]] \ {x[2]}, Without(DefaultRows[x[1]], x[2]))] :
       x \in DriftPool}

\* What an earlier build, over other data, left behind.
StaleDest ==
    LET old == Sources([DefaultRows EXCEPT
                   !.gameinfo = SetToBag({GameRow("g0", Ymd(2019, 7, 4), 2, 3, "Z", "A")}),
                   !.allplayers = SetToBag({PlayerRow("p0", "y", "L", "Z")})])
        T == StmtFactGameOutcomes(StmtFactPitching(StmtFactBatting(
                 StmtInsertDate(StmtCreateDimDate(StmtDimGame(StmtDimTeam(
                     StmtDimPlayer(old)))), Ymd(2019, 7, 4)))))
    IN [n \in DestTables \cap DOMAIN T |-> T[n]]

InitialStores ==
    DateStores \cup OutcomeStores \cup TeamStores \cup PlayerStores
    \cup {s @@ StaleDest : s \in MissingStores \cup DriftStores \cup {Sources(DefaultRows)}}
    \cup MissingStores \cup DriftStores

(***************************************************************************)
(* State.  Instances are the facade objects; each has its own connection   *)
(* and its own position in build_data_warehouse.                           *)
(***************************************************************************)
Instances == {1, 2}
Solo == {1}

VARIABLES
    tables,     \* the store: table name -> [cols, rows]
    indexes,    \* the store: existing indexes
    pc,         \* per instance: the statement build_data_warehouse is at
    conn,       \* per instance: "none", "open" or "closed" (self.conn)
    builds,     \* per instance: build_data_warehouse calls made
    missing,    \* per instance: missing_tables as printed by line 81
    stages,     \* per instance: the stages entered by the current call
    raised,     \* per instance: the exception caught by line 58, or "none"
    warned,     \* per instance: the warning of line 164 or 179 was printed
    range,      \* per instance: min_date, max_date (lines 167-174)
    current,    \* per instance: current_date of the loop of line 198
    written,    \* per instance: destination tables a statement was run on
    before,     \* per instance: the store when the current call began
    firstRun,   \* per instance: the destination tables when the first call returned
    report,     \* per instance: what the fact builder printed about each fact table
    overlapped, \* a call began while another instance's call was in progress
    locked,     \* a statement failed on the lock another instance's statement held
    answer,     \* per instance: the outcome of the last read query
    catalog,    \* combiner: the store, table name -> [cols, rows]
    tableList,  \* combiner: the names sqlite_master lists, in its order (line 14)
    groups,     \* combiner: suffix_groups entries still to process, in dict order
    cpc,        \* combiner: "Off", "Start", "Loop", "Done" or "Crashed"
    origin      \* combiner: the store when combine_tables_with_union was called

wvars == <<tables, indexes, pc, conn, builds, missing, stages, raised, warned,
           range, current, written, before, firstRun, report, overlapped, locked>>

cvars == <<catalog, tableList, groups, cpc, origin>>

qvars == <<answer>>

vars == <<wvars, cvars, qvars>>

NoBounds == [min |-> NullDate, max |-> NullDate]

Dest(T) == [n \in DOMAIN T \cap DestTables |-> T[n]]

\* No read query was made yet.
NoAnswer == [op |-> "none", res |-> "none", val |-> << >>]

\* A facade that was constructed (lines 5-8) over the store T.
WarehouseInit(T) ==
    /\ tables = T
    /\ indexes = {i \in IndexDefs : i.tbl \in DOMAIN T}
    /\ pc = [f \in Instances |-> "Idle"]
    /\ conn = [f \in Instances |-> "none"]
    /\ builds = [f \in Instances |-> 0]
    /\ missing = [f \in Instances |-> << >>]
    /\ stages = [f \in Instances |-> << >>]
    /\ raised = [f \in Instances |-> "none"]
    /\ warned = [f \in Instances |-> FALSE]
    /\ range = [f \in Instances |-> NoBounds]
    /\ current = [f \in Instances |-> NullDate]
    /\ written = [f \in Instances |-> {}]
    /\ before = [f \in Instances |-> << >>]
    /\ firstRun = [f \in Instances |-> << >>]
    /\ report = [f \in Instances |-> << >>]
    /\ overlapped = FALSE
    /\ locked = FALSE
    /\ answer = [f \in Instances |-> NoAnswer]

\* The combiner is not running.
CombinerOff ==
    /\ catalog = << >>
    /\ tableList = << >>
    /\ groups = << >>
    /\ cpc = "Off"
    /\ origin = << >>

Init == (\E T \in InitialStores : WarehouseInit(T)) /\ CombinerOff

(***************************************************************************)
(* build_data_warehouse (lines 37-65), one action per statement.           *)
(***************************************************************************)
Set(v, f, x) == [v EXCEPT ![f] = x]

\* Lines 37-42: a call of build_data_warehouse; connect() opens the connection.
Build(f) ==
    /\ pc[f] \in {"Idle", "Returned"}
    /\ builds[f] < MaxBuilds
    /\ builds' = Set(builds, f, builds[f] + 1)
    /\ conn' = Set(conn, f, "open")
    /\ missing' = Set(missing, f, << >>)
    /\ stages' = Set(stages, f, << >>)
    /\ raised' = Set(raised, f, "none")
    /\ warned' = Set(warned, f, FALSE)
    /\ range' = Set(range, f, NoBounds)
    /\ current' = Set(current, f, NullDate)
    /\ written' = Set(written, f, {})
    /\ before' = Set(before, f, tables)
    /\ report' = Set(report, f, << >>)
    /\ overlapped' = (overlapped \/ \E g \in Instances \ {f} : pc[g] \notin {"Idle", "Returned"})
    /\ pc' = Set(pc, f, "Verify")
    /\ UNCHANGED <<tables, indexes, firstRun,
                   locked, cvars, qvars>>

\* Mutant of MissingTables: the scan stops at the first missing table.
MissingTablesFirst(T) ==
    LET all == SelectSeq(required_tables, LAMBDA t : ~ Exists(T, t))
    IN IF all = << >> THEN << >> ELSE <<Head(all)>>

\* Lines 69-78: the required tables sqlite_master does not list, in order.
MissingTables(T) == SelectSeq(required_tables, LAMBDA t : ~ Exists(T, t))

\* Lines 46-48 and 67-83: _verify_source_tables; a missing table returns
\* from inside the try, so the finally clause is next.
VerifySourceTables(f) ==
    /\ pc[f] = "Verify"
    /\ missing' = Set(missing, f, MissingTables(tables))
    /\ stages' = Set(stages, f, Append(stages[f], "verify"))
    /\ pc' = Set(pc, f, IF MissingTables(tables) # << >> THEN "Finally" ELSE "DropDimPlayer")
    /\ UNCHANGED <<tables, indexes, conn, builds, raised, warned, range, current,
                   written, before, firstRun,
                   report, overlapped, locked, cvars, qvars>>

\* The DROP TABLE IF EXISTS statements of lines 90-93 and 220-222.
DropTarget ==
    [DropDimPlayer |-> "DimPlayer", DropDimTeam |-> "DimTeam", DropDimGame |-> "DimGame",
     DropDimDate |-> "DimDate", DropFactBatting |-> "FactBatting",
     DropFactPitching |-> "FactPitching", DropFactGameOutcomes |-> "FactGameOutcomes"]

AfterDrop ==
    [DropDimPlayer |-> "DropDimTeam", DropDimTeam |-> "DropDimGame",
     DropDimGame |-> "DropDimDate", DropDimDate |-> "CreateDimPlayer",
     DropFactBatting |-> "DropFactPitching", DropFactPitching |-> "DropFactGameOutcomes",
     DropFactGameOutcomes |-> "CreateFactBatting"]

\* The stage a statement opens: lines 51 and 52 call the two builders.
StageOpened(p) == IF p = "DropDimPlayer" THEN <<"dimensions">>
                  ELSE IF p = "DropFactBatting" THEN <<"facts">> ELSE << >>

DropIfExists(f) ==
    /\ pc[f] \in DOMAIN DropTarget
    /\ tables' = ExecDrop(tables, DropTarget[pc[f]])
    /\ indexes' = DropIndexes(indexes, DropTarget[pc[f]])
    /\ written' = Set(written, f, written[f] \cup {DropTarget[pc[f]]})
    /\ stages' = Set(stages, f, stages[f] \o StageOpened(pc[f]))
    /\ pc' = Set(pc, f, AfterDrop[pc[f]])
    /\ UNCHANGED <<conn, builds, missing, raised, warned, range, current, before, firstRun,
                   report, overlapped, locked, cvars, qvars>>

\* Lines 260-261, 294-295, 318-319, after execute_query of the CREATE of
\* fact table n took the store from T to U: error is the message of line
\* 33 (a failed statement leaves the store as it was), count the number
\* printed, 0 when the SELECT COUNT(*) fails on the absent table.
Reported(r, n, T, U) ==
    IF n \in FactTables
    THEN (n :> [error |-> (U = T),
                count |-> IF Exists(U, n) THEN BagCardinality(U[n].rows) ELSE 0]) @@ r
    ELSE r

\* Mutant of CreateAs: a statement that failed raises out of the builder.
CreateAsRaising(f, at, name, T, next) ==
    /\ pc[f] = at
    /\ tables' = T
    /\ report' = Set(report, f, Reported(report[f], name, tables, T))
    /\ written' = Set(written, f, written[f] \cup {name})
    /\ pc' = Set(pc, f, IF T = tables THEN "Except" ELSE next)
    /\ UNCHANGED <<indexes, conn, builds, missing, stages, raised, warned, range,
                   current, before, firstRun,
                   overlapped, cvars, qvars>>

\* A CREATE TABLE ... AS SELECT statement of the two builders.
CreateAs(f, at, name, T, next) ==
    /\ pc[f] = at
    /\ tables' = T
    /\ report' = Set(report, f, Reported(report[f], name, tables, T))
    /\ written' = Set(written, f, written[f] \cup {name})
    /\ pc' = Set(pc, f, next)
    /\ UNCHANGED <<indexes, conn, builds, missing, stages, raised, warned, range,
                   current, before, firstRun,
                   overlapped, cvars, qvars>>

CreateDimPlayer(f) ==
    /\ CreateAs(f, "CreateDimPlayer", "DimPlayer", StmtDimPlayer(tables), "CreateDimTeam")
    /\ UNCHANGED locked

CreateDimTeam(f) ==
    /\ CreateAs(f, "CreateDimTeam", "DimTeam", StmtDimTeam(tables), "CreateDimGame")
    /\ UNCHANGED locked

CreateDimGame(f) ==
    /\ CreateAs(f, "CreateDimGame", "DimGame", StmtDimGame(tables), "DateBounds")
    /\ UNCHANGED locked

\* Lines 163-180 on the two query results: "warn" is a warning and a return
\* from the dimension builder; TypeError is not caught by line 178.
\*   163     a failed query (None)                   -> warn
\*   172-174 isinstance(min_date, int): both bounds through fromtimestamp,
\*           which raises TypeError on a str max_date
\*   177     strptime(min_date): TypeError on None, ValueError (warn) on a
\*           text that is no date
ParseBounds(q) ==
    IF ~ q.ok THEN [res |-> "warn", min |-> q.min, max |-> q.max]
    ELSE IF q.min.k = "int"
         THEN IF q.max.k = "int"
              THEN [res |-> "ok", min |-> FromTimestamp(q.min.y),
                    max |-> FromTimestamp(q.max.y)]
              ELSE [res |-> "TypeError", min |-> q.min, max |-> q.max]
    ELSE IF q.min.k = "null" THEN [res |-> "TypeError", min |-> q.min, max |-> q.max]
    ELSE IF ValidYmd(q.min) THEN [res |-> "ok", min |-> q.min, max |-> q.max]
    ELSE [res |-> "warn", min |-> q.min, max |-> q.max]

\* Lines 160-180.
DateBounds(f) ==
    /\ pc[f] = "DateBounds"
    /\ LET b == ParseBounds(QueryDateBounds(tables))
       IN /\ range' = Set(range, f, [min |-> b.min, max |-> b.max])
          /\ warned' = Set(warned, f, b.res = "warn")
          /\ raised' = Set(raised, f, IF b.res = "TypeError" THEN "TypeError" ELSE "none")
          /\ pc' = Set(pc, f, IF b.res = "ok" THEN "CreateDimDate"
                              ELSE IF b.res = "warn" THEN "DropFactBatting"
                              ELSE "Except")
    /\ UNCHANGED <<tables, indexes, conn, builds, missing, stages, current, written,
                   before, firstRun,
                   report, overlapped, locked, cvars, qvars>>

\* Lines 182-196: the CREATE TABLE, then both bounds through strptime; the
\* ValueError of line 196 on max_date is outside the try of line 171.
CreateDimDate(f) ==
    /\ pc[f] = "CreateDimDate"
    /\ tables' = StmtCreateDimDate(tables)
    /\ written' = Set(written, f, written[f] \cup {"DimDate"})
    /\ IF ValidYmd(range[f].max)
       THEN /\ current' = Set(current, f, range[f].min)
            /\ pc' = Set(pc, f, "InsertDate")
            /\ UNCHANGED raised
       ELSE /\ raised' = Set(raised, f, "ValueError")
            /\ pc' = Set(pc, f, "Except")
            /\ UNCHANGED current
    /\ UNCHANGED <<indexes, conn, builds, missing, stages, warned, range, before, firstRun,
                   report, overlapped, locked, cvars, qvars>>

\* Lines 198-211: one pass of the loop, or its exit.
InsertDate(f) ==
    /\ pc[f] = "InsertDate"
    /\ IF DateLeq(current[f], range[f].max)
       THEN /\ tables' = StmtInsertDate(tables, current[f])
            /\ current' = Set(current, f, NextDay(current[f]))
            /\ UNCHANGED pc
       ELSE /\ pc' = Set(pc, f, "DropFactBatting")
            /\ UNCHANGED <<tables, current>>
    /\ UNCHANGED <<indexes, conn, builds, missing, stages, raised, warned, range,
                   written, before, firstRun,
                   report, overlapped, locked, cvars, qvars>>

CreateFactBatting(f) ==
    /\ CreateAs(f, "CreateFactBatting", "FactBatting", StmtFactBatting(tables),
                "CreateFactPitching")
    /\ UNCHANGED locked

CreateFactPitching(f) ==
    /\ CreateAs(f, "CreateFactPitching", "FactPitching", StmtFactPitching(tables),
                "CreateFactGameOutcomes")
    /\ UNCHANGED locked

CreateFactGameOutcomes(f) ==
    /\ CreateAs(f, "CreateFactGameOutcomes", "FactGameOutcomes", StmtFactGameOutcomes(tables),
                "Indexes")
    /\ UNCHANGED locked

\* Line 53 and lines 323-344: _create_indexes.
CreateIndexes(f) ==
    /\ pc[f] = "Indexes"
    /\ indexes' = StmtIndexes(tables, indexes)
    /\ stages' = Set(stages, f, Append(stages[f], "indexes"))
    /\ pc' = Set(pc, f, "Counts")
    /\ UNCHANGED <<tables, conn, builds, missing, raised, warned, range, current,
                   written, before, firstRun,
                   report, overlapped, locked, cvars, qvars>>

\* Line 56 and lines 346-363: _verify_table_counts only reads.
VerifyTableCounts(f) ==
    /\ pc[f] = "Counts"
    /\ stages' = Set(stages, f, Append(stages[f], "counts"))
    /\ pc' = Set(pc, f, "Finally")
    /\ UNCHANGED <<tables, indexes, conn, builds, missing, raised, warned, range,
                   current, written, before, firstRun,
                   report, overlapped, locked, cvars, qvars>>

\* Mutant of Rollback: the handler undoes the whole call.
RollbackCall(T, B) == B

\* self.conn.rollback() of line 60: every statement was committed by line
\* 30 or rolled back by line 34 already, so nothing is pending.
Rollback(T, B) == T

\* Lines 58-60.
Except(f) ==
    /\ pc[f] = "Except"
    /\ tables' = Rollback(tables, before[f])
    /\ pc' = Set(pc, f, "Finally")
    /\ UNCHANGED <<indexes, conn, builds, missing, stages, raised, warned, range,
                   current, written, before, firstRun,
                   report, overlapped, locked, cvars, qvars>>

\* Mutant of CloseConn: the connection is left as it is.
CloseConnNot(c) == c

\* close() of lines 17-21, on a facade whose conn is c.
CloseConn(c) == IF c = "none" THEN "none" ELSE "closed"

\* Lines 61-65: the finally clause, then the return.
Close(f) ==
    /\ pc[f] = "Finally"
    /\ conn' = Set(conn, f, CloseConn(conn[f]))
    /\ firstRun' = Set(firstRun, f, IF builds[f] = 1 THEN Dest(tables) ELSE firstRun[f])
    /\ pc' = Set(pc, f, "Returned")
    /\ UNCHANGED <<tables, indexes, builds, missing, stages, raised, warned, range,
                   current, written, before,
                   report, overlapped, locked, cvars, qvars>>

Step(f) ==
    \/ Build(f)
    \/ VerifySourceTables(f)
    \/ DropIfExists(f)
    \/ CreateDimPlayer(f)
    \/ CreateDimTeam(f)
    \/ CreateDimGame(f)
    \/ DateBounds(f)
    \/ CreateDimDate(f)
    \/ InsertDate(f)
    \/ CreateFactBatting(f)
    \/ CreateFactPitching(f)
    \/ CreateFactGameOutcomes(f)
    \/ CreateIndexes(f)
    \/ VerifyTableCounts(f)
    \/ Except(f)
    \/ Close(f)

Next == \E f \in Solo : Step(f)

Spec == Init /\ [][Next]_vars

(***************************************************************************)
(* Claims about build_data_warehouse.                                      *)
(***************************************************************************)
\* The statements after the dimension builder has returned normally.
AfterDimensions ==
    {"DropFactBatting", "DropFactPitching", "DropFactGameOutcomes", "CreateFactBatting",
     "CreateFactPitching", "CreateFactGameOutcomes", "Indexes", "Counts"}

AllStages == <<"verify", "dimensions", "facts", "indexes", "counts">>

Range(s) == {s[i] : i \in DOMAIN s}

\* C1: when a required source table is absent at the call, no statement is
\* run on a destination table, the destination tables and the indexes stay
\* as they were, no stage after the verification is entered, and the
\* reported list holds exactly the absent required tables, each once.
C1_MissingSourceGuard ==
    \A f \in Instances :
        (builds[f] > 0 /\ ~ (SourceNames \subseteq DOMAIN before[f])) =>
            /\ written[f] = {}
            /\ Dest(tables) = Dest(before[f])
            /\ indexes = {i \in IndexDefs : i.tbl \in DOMAIN before[f]}
            /\ stages[f] \in {<< >>, <<"verify">>}
            /\ pc[f] \in {"Verify", "Finally", "Returned"}
            /\ pc[f] \in {"Finally", "Returned"} =>
                  /\ Range(missing[f]) = SourceNames \ DOMAIN before[f]
                  /\ Len(missing[f]) = Cardinality(Range(missing[f]))

C1_Witness ==
    /\ pc[1] = "Returned"
    /\ Len(missing[1]) = 2
    /\ DestTables \subseteq DOMAIN tables

\* C2: every row of FactGameOutcomes has exactly one of visiting_win,
\* home_win, tie equal to 1, rows whose runs are NULL included, and the
\* three flags are a function of (visiting_runs, home_runs).
C2_ExactlyOneOutcome ==
    Exists(tables, "FactGameOutcomes") =>
        LET R == DOMAIN tables["FactGameOutcomes"].rows
        IN /\ \A r \in R : r.visiting_win + r.home_win + r.tie = 1
           /\ \A r, s \in R :
                 (r.visiting_runs = s.visiting_runs /\ r.home_runs = s.home_runs) =>
                     /\ r.visiting_win = s.visiting_win
                     /\ r.home_win = s.home_win
                     /\ r.tie = s.tie

\* C3: once the dimension stage is over, and MIN(date) <= MAX(date) of
\* gameinfo are both valid ISO dates, DimDate holds one row per day of the
\* inclusive range: (max - min).days + 1 rows, no date twice, no gap.
C3_DateDimension ==
    \A f \in Instances :
        LET q == QueryDateBounds(tables)
        IN (/\ pc[f] \in AfterDimensions
            /\ q.ok /\ ValidYmd(q.min) /\ ValidYmd(q.max)
            /\ ToOrdinal(q.min) <= ToOrdinal(q.max)) =>
               /\ Exists(tables, "DimDate")
               /\ LET D == tables["DimDate"].rows
                  IN /\ BagCardinality(D) = ToOrdinal(q.max) - ToOrdinal(q.min) + 1
                     /\ \A r \in DOMAIN D : D[r] = 1 /\ ValidYmd(r.date_id)
                     /\ \A r, s \in DOMAIN D : r.date_id = s.date_id => r = s
                     /\ {ToOrdinal(r.date_id) : r \in DOMAIN D}
                            = ToOrdinal(q.min)..ToOrdinal(q.max)

\* A range that runs over the leap day of 2020 into March.
C3_Witness ==
    /\ pc[1] = "DropFactBatting"
    /\ Exists(tables, "DimDate")
    /\ BagCardinality(tables["DimDate"].rows) = 4
    /\ \E r \in DOMAIN tables["DimDate"].rows : r.date_id = Ymd(2020, 2, 29)

\* C4: when a second (or later) call returns, the destination tables are
\* the ones the first call left: same tables, same rows, same row counts.
C4_Idempotence ==
    \A f \in Instances :
        (pc[f] = "Returned" /\ builds[f] >= 2) => Dest(tables) = firstRun[f]

C4_Witness ==
    /\ pc[1] = "Returned"
    /\ builds[1] = 2
    /\ DestTables \subseteq DOMAIN tables
    /\ DestTables \cap DOMAIN before[1] # {}
    /\ BagCardinality(tables["DimDate"].rows) = 3
    /\ BagCardinality(tables["FactBatting"].rows) = 1

\* C6: once the dimension stage is over, the team_id values of DimTeam are
\* the union of the seven team columns, each in exactly one row.
C6_TeamDimension ==
    \A f \in Instances :
        (/\ pc[f] \in AfterDimensions
         /\ \A n \in SourceNames : HasCols(tables, n, SourceCols[n])) =>
            /\ Exists(tables, "DimTeam")
            /\ LET D == tables["DimTeam"].rows
                   rows(n) == DOMAIN tables[n].rows
               IN /\ {r.team_id : r \in DOMAIN D}
                        = {r.team : r \in rows("allplayers")}
                          \cup {r.visteam : r \in rows("gameinfo")}
                          \cup {r.hometeam : r \in rows("gameinfo")}
                          \cup {r.team : r \in rows("teamstats")}
                          \cup {r.team : r \in rows("batting")}
                          \cup {r.team : r \in rows("pitching")}
                          \cup {r.team : r \in rows("fielding")}
                  /\ \A r \in DOMAIN D : D[r] = 1
                  /\ \A r, s \in DOMAIN D : r.team_id = s.team_id => r = s

\* Three teams, one of them named by the fielding table alone.
C6_Witness ==
    /\ pc[1] = "DropFactBatting"
    /\ Exists(tables, "DimTeam")
    /\ BagCardinality(tables["DimTeam"].rows) = 3
    /\ \E r \in DOMAIN tables["fielding"].rows :
          /\ r.team # NullTxt
          /\ \A n \in SourceNames \ {"fielding", "gameinfo"} :
                \A x \in DOMAIN tables[n].rows : x.team # r.team
          /\ \A g \in DOMAIN tables["gameinfo"].rows :
                g.visteam # r.team /\ g.hometeam # r.team

\* C7: DimPlayer holds at most one row per player_id, whatever allplayers holds.
C7_PlayerIdUnique ==
    Exists(tables, "DimPlayer") =>
        LET D == tables["DimPlayer"].rows
        IN /\ \A r \in DOMAIN D : D[r] = 1
           /\ \A r, s \in DOMAIN D : r.player_id = s.player_id => r = s

\* C8: a call that opened the connection returns with it closed, on every
\* path: the connection is open only between connect() and the finally
\* clause, and a call in progress can always take its next step.
C8_ClosedAlwaysReached ==
    \A f \in Solo :
        /\ pc[f] = "Returned" => conn[f] = "closed"
        /\ pc[f] = "Idle" => conn[f] = "none"
        /\ pc[f] \notin {"Idle", "Returned"} => conn[f] = "open" /\ ENABLED Step(f)

\* A return after an exception escaped the dimension stage.
C8_Witness ==
    /\ pc[1] = "Returned"
    /\ raised[1] = "ValueError"
    /\ conn[1] = "closed"

\* C9: after an exception escaped a stage, the call goes to the handler and
\* the finally clause only: no later stage is entered, and the store keeps
\* every table the call had created (handler and close change no table).
C9_NoLaterStage ==
    \A f \in Instances :
        raised[f] # "none" =>
            /\ pc[f] \in {"Except", "Finally", "Returned"}
            /\ stages[f] = <<"verify", "dimensions">>

C9_StoreKept ==
    \A f \in Instances :
        (raised[f] # "none" /\ pc[f] \in {"Except", "Finally"}) =>
            /\ tables' = tables
            /\ indexes' = indexes
            /\ {"DimPlayer", "DimTeam", "DimGame"} \subseteq DOMAIN tables'
            /\ raised[f] = "ValueError" => Exists(tables', "DimDate")

C9_AbortOnStageException == [] C9_NoLaterStage /\ [][C9_StoreKept]_vars

C9_Witness ==
    /\ pc[1] = "Returned"
    /\ raised[1] = "TypeError"
    /\ {"DimPlayer", "DimTeam", "DimGame"} \subseteq DOMAIN tables
    /\ BagCardinality(tables["DimGame"].rows) = 2

\* C10: whenever MIN(date) or MAX(date) is NULL or a text that is no ISO
\* date, the call returns with the warning printed, without a DimDate
\* table, and with every stage run.
BadBound(v) == v.k = "null" \/ (v.k \in {"ymd", "junk"} /\ ~ ValidYmd(v))

C10_DateBoundsNonFatal ==
    \A f \in Instances :
        LET q == QueryDateBounds(tables)
        IN (/\ pc[f] = "Returned"
            /\ SourceNames \subseteq DOMAIN tables
            /\ q.ok /\ (BadBound(q.min) \/ BadBound(q.max))) =>
               /\ warned[f]
               /\ ~ Exists(tables, "DimDate")
               /\ stages[f] = AllStages

(***************************************************************************)
(* combine_tables_with_union (src/1.3_Transform.py).  A table name is the  *)
(* sequence of its characters; a row is the tuple of its values in the     *)
(* order of the table's column list.                                       *)
(***************************************************************************)
DigitSeq == <<"0", "1", "2", "3", "4", "5", "6", "7", "8", "9">>
Digits == Range(DigitSeq)

\* re.match(r'^\d{4}.+$', table), line 19.
IsYearTable(name) == Len(name) >= 5 /\ \A i \in 1..4 : name[i] \in Digits

\* table[4:], line 20.
SuffixOf(name) == SubSeq(name, 5, Len(name))

\* table[:4], line 40.
YearOf(name) == SubSeq(name, 1, 4)

DigitValue(c) == (CHOOSE i \in 1..10 : DigitSeq[i] = c) - 1

\* The value of the SQL literal {year} of line 47.
YearLiteral(y) ==
    1000 * DigitValue(y[1]) + 100 * DigitValue(y[2]) + 10 * DigitValue(y[3]) + DigitValue(y[4])

\* Lines 17-23: suffix_groups as the sequence of its (suffix, tables)
\* entries, in insertion order.
RECURSIVE GroupTables(_, _)
GroupTables(names, acc) ==
    IF names = << >> THEN acc
    ELSE LET t == Head(names)
             at == {i \in DOMAIN acc : acc[i].suffix = SuffixOf(t)}
         IN GroupTables(Tail(names),
                IF ~ IsYearTable(t) THEN acc
                ELSE IF at = {}
                     THEN Append(acc, [suffix |-> SuffixOf(t), year_tables |-> <<t>>])
                     ELSE LET i == CHOOSE j \in at : TRUE
                          IN [acc EXCEPT ![i].year_tables = Append(@, t)])

\* Line 47: SELECT <columns of t>, {year} AS source_year FROM t.
UnionPart(C, t) ==
    Project(C[t].rows, LAMBDA r : Append(r, YearLiteral(YearOf(t))))

\* Line 50: the parts joined by UNION ALL, by position.
RECURSIVE UnionAll(_, _)
UnionAll(C, ts) == IF ts = << >> THEN EmptyBag
                   ELSE UnionPart(C, Head(ts)) (+) UnionAll(C, Tail(ts))

\* The statement of lines 53-57 compiles when every part reads an existing
\* table and all parts have the same number of columns.
UnionCompiles(C, ts) ==
    \A i \in DOMAIN ts :
        /\ Exists(C, ts[i])
        /\ Len(C[ts[i]].cols) = Len(C[ts[1]].cols)

\* Lines 53-57: CREATE TABLE combined AS <union>; the columns take the
\* names of the first part.
CombinedTable(C, ts) ==
    [cols |-> Append(C[ts[1]].cols, "source_year"), rows |-> UnionAll(C, ts)]

\* Lines 9-23.
ListTables ==
    /\ cpc = "Start"
    /\ groups' = GroupTables(tableList, << >>)
    /\ cpc' = "Loop"
    /\ UNCHANGED <<catalog, tableList, origin, wvars, qvars>>

\* Lines 27-29: a group of one table is skipped.
SkipGroup ==
    /\ cpc = "Loop" /\ groups # << >>
    /\ Len(Head(groups).year_tables) < 2
    /\ groups' = Tail(groups)
    /\ UNCHANGED <<catalog, tableList, cpc, origin, wvars, qvars>>

\* Lines 31-63: DROP TABLE IF EXISTS combined, then CREATE TABLE AS.
CombineGroup ==
    /\ cpc = "Loop" /\ groups # << >>
    /\ LET g == Head(groups)
           C == ExecDrop(catalog, g.suffix)
       IN /\ Len(g.year_tables) >= 2
          /\ UnionCompiles(C, g.year_tables)
          /\ catalog' = (g.suffix :> CombinedTable(C, g.year_tables)) @@ C
    /\ groups' = Tail(groups)
    /\ UNCHANGED <<tableList, cpc, origin, wvars, qvars>>

\* Line 57 raises sqlite3.OperationalError: nothing catches it; the DROP of
\* line 35, a DDL statement run outside a transaction, stays.
CombineFails ==
    /\ cpc = "Loop" /\ groups # << >>
    /\ LET g == Head(groups)
           C == ExecDrop(catalog, g.suffix)
       IN /\ Len(g.year_tables) >= 2
          /\ ~ UnionCompiles(C, g.year_tables)
          /\ catalog' = C
    /\ cpc' = "Crashed"
    /\ UNCHANGED <<tableList, groups, origin, wvars, qvars>>

\* Lines 65-67.
Finish ==
    /\ cpc = "Loop" /\ groups = << >>
    /\ cpc' = "Done"
    /\ UNCHANGED <<catalog, tableList, groups, origin, wvars, qvars>>

NextCombine == ListTables \/ SkipGroup \/ CombineGroup \/ CombineFails \/ Finish

(***************************************************************************)
(* Initial catalogs: the yearly tables 2020x and 2021x vary in column      *)
(* list and rows; 2021y is the only table of its suffix; x is a combined   *)
(* table of an earlier run; 202x and 2021 do not match the pattern.        *)
(***************************************************************************)
Name2020x == <<"2", "0", "2", "0", "x">>
Name2021x == <<"2", "0", "2", "1", "x">>
Name2021y == <<"2", "0", "2", "1", "y">>
NameX == <<"x">>
Name202x == <<"2", "0", "2", "x">>
Name2021 == <<"2", "0", "2", "1">>

ColumnLists == {<<"a", "b">>, <<"b", "a">>, <<"a">>}
Values == {1, 2}

\* The tables of a column list with at most MaxRows rows.
YearTables ==
    UNION {{[cols |-> cl, rows |-> BagOfSeq(a)] :
               a \in UNION {[1..n -> [1..Len(cl) -> Values]] : n \in 0..MaxRows}} :
           cl \in ColumnLists}

FixedTables ==
    (Name2021y :> [cols |-> <<"a">>, rows |-> SetToBag({<<1>>})])
    @@ (NameX :> [cols |-> <<"a", "b", "source_year">>, rows |-> SetToBag({<<9, 9, 1999>>})])
    @@ (Name202x :> [cols |-> <<"a">>, rows |-> SetToBag({<<1>>})])
    @@ (Name2021 :> [cols |-> <<"a">>, rows |-> SetToBag({<<2>>})])

InitialCatalogs ==
    {[n \in D |-> FixedTables[n]] @@ yearly :
        D \in {{}, {NameX}, {Name2021y, Name202x, Name2021}, DOMAIN FixedTables},
        yearly \in {(Name2020x :> t) @@ (Name2021x :> u) : t, u \in YearTables}
                   \cup {(Name2020x :> t) : t \in YearTables}}

ListingOrders ==
    {<<NameX, Name2020x, Name2021x, Name2021y, Name202x, Name2021>>,
     <<Name2021, Name2021y, Name2021x, Name2020x, Name202x, NameX>>}

InitCombine ==
    /\ WarehouseInit(<< >>)
    /\ catalog \in InitialCatalogs
    /\ \E o \in ListingOrders : tableList = SelectSeq(o, LAMBDA n : n \in DOMAIN catalog)
    /\ groups = << >>
    /\ cpc = "Start"
    /\ origin = catalog

SpecCombine == InitCombine /\ [][NextCombine]_vars

(***************************************************************************)
(* Claim about combine_tables_with_union.                                  *)
(***************************************************************************)
\* A row under the names of its table's columns.
Named(cols, r) == [c \in Range(cols) |-> r[CHOOSE i \in DOMAIN cols : cols[i] = c]]

NamedRows(tbl) == BagImage(DOMAIN tbl.rows, LAMBDA r : Named(tbl.cols, r), tbl.rows)

\* The rows of yearly table t, each with source_year = the prefix of t.
Tagged(C, t) ==
    BagImage(DOMAIN C[t].rows,
             LAMBDA r : Named(Append(C[t].cols, "source_year"),
                              Append(r, YearLiteral(YearOf(t)))),
             C[t].rows)

RECURSIVE BagSum(_, _)
BagSum(C, S) == IF S = {} THEN EmptyBag
                ELSE LET t == CHOOSE e \in S : TRUE
                     IN Tagged(C, t) (+) BagSum(C, S \ {t})

RECURSIVE RowCount(_, _)
RowCount(C, S) == IF S = {} THEN 0
                  ELSE LET t == CHOOSE e \in S : TRUE
                       IN BagCardinality(C[t].rows) + RowCount(C, S \ {t})

YearlyOf(C, sfx) == {t \in DOMAIN C : IsYearTable(t) /\ SuffixOf(t) = sfx}

\* C5: after a completed run, for every suffix with at least two yearly
\* tables of one and the same column set, the combined table holds as many
\* rows as the yearly tables together, and holds exactly their rows, each
\* unchanged under its column names and with source_year = its table's
\* prefix (so duplicates stay and an earlier combined table adds nothing).
C5_UnionCombiner ==
    cpc = "Done" =>
        \A sfx \in {SuffixOf(t) : t \in {n \in DOMAIN origin : IsYearTable(n)}} :
            LET S == YearlyOf(origin, sfx)
            IN (/\ Cardinality(S) >= 2
                /\ \A t, u \in S : Range(origin[t].cols) = Range(origin[u].cols)) =>
                   /\ Exists(catalog, sfx)
                   /\ BagCardinality(catalog[sfx].rows) = RowCount(origin, S)
                   /\ NamedRows(catalog[sfx]) = BagSum(origin, S)

(***************************************************************************)
(* Claims about the fact builder and the count verification.               *)
(***************************************************************************)
\* The source tables of a store.
Src(T) == [n \in DOMAIN T \ DestTables |-> T[n]]

\* The store a fact table's own statement gives over the sources alone.
FactAlone(T, n) ==
    IF n = "FactBatting" THEN StmtFactBatting(Src(T))
    ELSE IF n = "FactPitching" THEN StmtFactPitching(Src(T))
    ELSE StmtFactGameOutcomes(Src(T))

\* C12: a fact table whose creating statement fails, or selects no row, is
\* reported (the error message, the count 0); the other fact tables are
\* what their own statements give, the index stage and the count
\* verification still run, and no exception leaves the fact stage.
C12_FactBuildsIndependent ==
    \A f \in Solo :
        /\ (pc[f] = "Except" \/ raised[f] # "none") => "facts" \notin Range(stages[f])
        /\ (pc[f] \in {"Indexes", "Counts", "Finally", "Returned"}
              /\ "facts" \in Range(stages[f])) =>
               /\ DOMAIN report[f] = FactTables
               /\ \A n \in FactTables :
                     /\ report[f][n].error <=> ~ Exists(tables, n)
                     /\ Exists(tables, n) <=> Exists(FactAlone(tables, n), n)
                     /\ Exists(tables, n) =>
                           /\ tables[n] = FactAlone(tables, n)[n]
                           /\ report[f][n].count = BagCardinality(tables[n].rows)
                     /\ ~ Exists(tables, n) => report[f][n].count = 0
               /\ pc[f] = "Returned" => stages[f] = AllStages

\* FactBatting failed on a missing column; the other two were built, one
\* of them reported, and the call went through indexes and counts.
C12_Witness ==
    /\ pc[1] = "Returned"
    /\ stages[1] = AllStages
    /\ ~ Exists(tables, "FactBatting")
    /\ report[1]["FactBatting"] = [error |-> TRUE, count |-> 0]
    /\ Exists(tables, "FactPitching")
    /\ Exists(tables, "FactGameOutcomes")
    /\ report[1]["FactPitching"].count = 1

\* C13: a call that ran the count verification leaves all seven
\* destination tables in the store.
C13_VerifiedFullSuccess ==
    \A f \in Instances :
        "counts" \in Range(stages[f]) => DestTables \subseteq DOMAIN tables

(***************************************************************************)
(* The read queries (lines 365-444) and the calls of __main__ (447-470).   *)
(***************************************************************************)
\* Three-valued AND, OR and text comparison of the WHERE and CASE clauses.
And3(a, b) == IF a = "F" \/ b = "F" THEN "F" ELSE IF a = "T" /\ b = "T" THEN "T" ELSE "U"

Or3(a, b) == IF a = "T" \/ b = "T" THEN "T" ELSE IF a = "F" /\ b = "F" THEN "F" ELSE "U"

SqlEqTxt(a, b) == IF a = NullTxt \/ b = NullTxt THEN "U" ELSE IF a = b THEN "T" ELSE "F"

\* x IN (a, b) of line 432.
SqlIn(x, a, b) == Or3(SqlEqTxt(x, a), SqlEqTxt(x, b))

\* season=None: lines 395 and 437 add no filter.
NoSeason == NullInt

\* The limit of line 365, which __main__ passes as well (line 455).
DefaultLimit == 5

\* strftime('%Y', game_date) of line 396: the year of a YYYY-MM-DD text,
\* NULL for another text; an INTEGER is read as a Julian day number, whose
\* year is no season.
StrftimeYear(d) == IF d.k = "ymd" THEN d.y ELSE NullInt

\* SUM(x): the NULLs are skipped, and the sum of no value is NULL.
SqlSum(v, W, S) ==
    LET N == {x \in S : v[x] # NullInt}
    IN IF N = {} THEN NullInt ELSE SumOver([x \in N |-> W[x] * v[x]], N)

\* What a query call gives: res is "rows" or "value" with the result in
\* val, "empty" ([]), "absent" (None), or the exception that left the call.
Outcome(op, res, val) == [op |-> op, res |-> res, val |-> val]

\* Mutant of NoConnection: the error is swallowed like a failed statement.
NoConnectionSwallowed(op, c) ==
    Outcome(op, IF op = "player" THEN "empty" ELSE "absent", {})

\* execute_query with no usable connection.  Never connected: self.cursor
\* is None and line 29 raises AttributeError.  Closed: line 29 raises
\* sqlite3.ProgrammingError, line 32 catches it, and the rollback of line
\* 34 raises it again, out of execute_query and out of the query.
NoConnection(op, c) ==
    Outcome(op, IF c = "none" THEN "AttributeError" ELSE "ProgrammingError", {})

\* Lines 386-388 and 396: DimPlayer p JOIN FactBatting b ON the player id.
PlayerJoin(T, season) ==
    {x \in (DOMAIN T["DimPlayer"].rows) \X (DOMAIN T["FactBatting"].rows) :
        /\ SqlEqTxt(x[1].player_id, x[2].player_id) = "T"
        /\ season # NoSeason => SqlEq(StrftimeYear(x[2].game_date), season) = "T"}

\* Line 399, GROUP BY p.player_id: one row per player id.  player_name and
\* batting_hand are bare columns, taken from one row of the group (pick);
\* games counts the joined rows, as each SUM of lines 379-385 adds them up.
PlayerGroups(T, season, pick) ==
    LET J == PlayerJoin(T, season)
        W == [x \in J |-> T["DimPlayer"].rows[x[1]] * T["FactBatting"].rows[x[2]]]
    IN {[player_name |-> pick[g].player_name, batting_hand |-> pick[g].batting_hand,
         games |-> SumOver(W, {x \in J : x[1].player_id = g})] :
          g \in {x[1].player_id : x \in J}}

\* Mutant of PlayerStats: the error of a missing table or column leaves
\* execute_query instead of becoming None.
PlayerStatsUnchecked(T, season, limit) ==
    IF ~ Exists(T, "FactBatting") THEN {Outcome("player", "empty", {})}
    ELSE {Outcome("player", "OperationalError", {})}

\* The results query_player_stats can return on an open connection.
PlayerStats(T, season, limit) ==
    IF ~ Exists(T, "FactBatting") THEN {Outcome("player", "empty", {})}
    ELSE IF ~ (/\ HasCols(T, "DimPlayer", {"player_id", "player_name", "batting_hand"})
               /\ HasCols(T, "FactBatting", {"player_id", "game_date"}))
         THEN {Outcome("player", "empty", {})}
    ELSE LET J == PlayerJoin(T, season)
             G == {x[1].player_id : x \in J}
             picks == {k \in [G -> {x[1] : x \in J}] : \A g \in G : k[g].player_id = g}
         IN IF J = {} THEN {Outcome("player", "empty", {})}
            ELSE {Outcome("player", "rows", R) :
                    R \in UNION {{X \in SUBSET PlayerGroups(T, season, k) :
                                     Cardinality(X) = limit
                                     \/ (X = PlayerGroups(T, season, k)
                                         /\ Cardinality(X) <= limit)} : k \in picks}}

\* Lines 431-439: DimTeam t JOIN FactGameOutcomes g.
TeamJoin(T, team, season) ==
    {x \in (DOMAIN T["DimTeam"].rows) \X (DOMAIN T["FactGameOutcomes"].rows) :
        /\ SqlIn(x[1].team_id, x[2].visiting_team_id, x[2].home_team_id) = "T"
        /\ SqlEqTxt(x[1].team_id, team) = "T"
        /\ season # NoSeason => SqlEq(x[2].season, season) = "T"}

\* Lines 423-424.
Win(x) ==
    CaseWhen(Or3(And3(SqlEqTxt(x[2].visiting_team_id, x[1].team_id),
                      SqlEq(x[2].visiting_win, 1)),
                 And3(SqlEqTxt(x[2].home_team_id, x[1].team_id),
                      SqlEq(x[2].home_win, 1))))

\* Mutant of Loss: the tie = 0 tests are left out.
LossNoTie(x) ==
    CaseWhen(Or3(And3(SqlEqTxt(x[2].visiting_team_id, x[1].team_id),
                      SqlEq(x[2].visiting_win, 0)),
                 And3(SqlEqTxt(x[2].home_team_id, x[1].team_id),
                      SqlEq(x[2].home_win, 0))))

\* Lines 425-426.
Loss(x) ==
    CaseWhen(Or3(And3(SqlEqTxt(x[2].visiting_team_id, x[1].team_id),
                      And3(SqlEq(x[2].visiting_win, 0), SqlEq(x[2].tie, 0))),
                 And3(SqlEqTxt(x[2].home_team_id, x[1].team_id),
                      And3(SqlEq(x[2].home_win, 0), SqlEq(x[2].tie, 0)))))

\* Lines 428 and 429.
RunsScored(x) ==
    IF SqlEqTxt(x[2].visiting_team_id, x[1].team_id) = "T"
    THEN x[2].visiting_runs ELSE x[2].home_runs

RunsAllowed(x) ==
    IF SqlEqTxt(x[2].visiting_team_id, x[1].team_id) = "T"
    THEN x[2].home_runs ELSE x[2].visiting_runs

\* The result of query_team_performance on an open connection.
TeamPerformance(T, team, season) ==
    IF ~ Exists(T, "FactGameOutcomes") THEN Outcome("team", "absent", {})
    ELSE IF ~ (/\ HasCols(T, "DimTeam", {"team_id"})
               /\ HasCols(T, "FactGameOutcomes",
                      {"season", "visiting_team_id", "home_team_id", "visiting_runs",
                       "home_runs", "visiting_win", "home_win", "tie"}))
         THEN Outcome("team", "absent", {})
    ELSE LET J == TeamJoin(T, team, season)
             W == [x \in J |-> T["DimTeam"].rows[x[1]] * T["FactGameOutcomes"].rows[x[2]]]
         IN IF J = {} THEN Outcome("team", "absent", {})
            ELSE Outcome("team", "value",
                    {[team_id |-> team,
                      games_played |-> SumOver(W, J),
                      wins |-> SqlSum([x \in J |-> Win(x)], W, J),
                      losses |-> SqlSum([x \in J |-> Loss(x)], W, J),
                      ties |-> SqlSum([x \in J |-> x[2].tie], W, J),
                      runs_scored |-> SqlSum([x \in J |-> RunsScored(x)], W, J),
                      runs_allowed |-> SqlSum([x \in J |-> RunsAllowed(x)], W, J)]})

SeasonArgs == {NoSeason, 2020, 2021}
TeamArgs == {"A", "B", "Z"}

\* The facade is between two calls of build_data_warehouse.
AtRest(f) == pc[f] \in {"Idle", "Returned"}

\* Line 452: connect() opens a new connection.
Connect(f) ==
    /\ AtRest(f)
    /\ conn' = Set(conn, f, "open")
    /\ UNCHANGED <<tables, indexes, pc, builds, missing, stages, raised, warned, range,
                   current, written, before, firstRun, report, overlapped, locked, cvars, qvars>>

\* Lines 365-407.
QueryPlayerStats(f) ==
    /\ AtRest(f)
    /\ \E season \in SeasonArgs :
          \E r \in (IF conn[f] = "open" THEN PlayerStats(tables, season, DefaultLimit)
                    ELSE {NoConnection("player", conn[f])}) :
              answer' = Set(answer, f, r)
    /\ UNCHANGED <<wvars, cvars>>

\* Lines 409-444.
QueryTeamPerformance(f) ==
    /\ AtRest(f)
    /\ \E team \in TeamArgs, season \in SeasonArgs :
          answer' = Set(answer, f, IF conn[f] = "open"
                                   THEN TeamPerformance(tables, team, season)
                                   ELSE NoConnection("team", conn[f]))
    /\ UNCHANGED <<wvars, cvars>>

\* Line 470: close() after the queries.
CloseAfterQueries(f) ==
    /\ AtRest(f)
    /\ conn[f] = "open"
    /\ conn' = Set(conn, f, CloseConn(conn[f]))
    /\ UNCHANGED <<tables, indexes, pc, builds, missing, stages, raised, warned, range,
                   current, written, before, firstRun, report, overlapped, locked, cvars, qvars>>

\* The kinds of game the season stores draw from: a win of either side, a
\* tie, a NULL score, a NULL team, a team playing itself.
GamePool ==
    {[vis |-> "A", home |-> "B", vruns |-> 1, hruns |-> 0, season |-> 2020],
     [vis |-> "B", home |-> "A", vruns |-> 1, hruns |-> 0, season |-> 2021],
     [vis |-> "A", home |-> "B", vruns |-> 1, hruns |-> 1, season |-> 2021],
     [vis |-> "A", home |-> "B", vruns |-> NullInt, hruns |-> 1, season |-> 2020],
     [vis |-> NullTxt, home |-> "A", vruns |-> 0, hruns |-> 1, season |-> NullInt],
     [vis |-> "A", home |-> "A", vruns |-> 1, hruns |-> 0, season |-> 2020]}

\* Stores whose games vary in teams, runs and season.
SeasonStores ==
    {Sources([DefaultRows EXCEPT !.gameinfo =
          BagOfSeq([i \in DOMAIN a |->
              [GameRow(Gid(i), Ymd(2020, 2, 28), a[i].vruns, a[i].hruns,
                       a[i].vis, a[i].home) EXCEPT !.season = a[i].season]])]) :
       a \in UNION {[1..n -> GamePool] : n \in 1..MaxGames}}

\* The stores the queries are run over: built or not, with a fact or a
\* dimension table missing, with a player id twice, without games.
QueryStores ==
    SeasonStores
    \cup DriftStores \cup {s @@ StaleDest : s \in DriftStores}
    \cup {Sources(DefaultRows), Sources(DefaultRows) @@ StaleDest,
          [n \in SourceNames \ {"fielding"} |-> Sources(DefaultRows)[n]],
          Sources([DefaultRows EXCEPT !.gameinfo = EmptyBag]),
          Sources([DefaultRows EXCEPT !.gameinfo =
                       SetToBag({GameRow("g1", Junk(10000), 1, 0, "A", "B")})]),
          Sources([DefaultRows EXCEPT !.allplayers =
                       SetToBag({PlayerRow("p1", "x", "R", "A"),
                                 PlayerRow("p1", "x", "L", "A")})])}

InitQuery == (\E T \in QueryStores : WarehouseInit(T)) /\ CombinerOff

NextQuery ==
    \E f \in Solo :
        \/ Step(f)
        \/ Connect(f)
        \/ QueryPlayerStats(f)
        \/ QueryTeamPerformance(f)
        \/ CloseAfterQueries(f)

SpecQuery == InitQuery /\ [][NextQuery]_vars

(***************************************************************************)
(* Claims about the read queries.                                          *)
(***************************************************************************)
\* C11: on an open connection, query_player_stats over a store without
\* FactBatting or without DimPlayer returns [], and query_team_performance
\* over a store without FactGameOutcomes or without DimTeam returns None;
\* neither raises.
C11_UnbuiltQueries ==
    [][\A f \in Solo :
          conn[f] = "open" =>
             /\ (/\ QueryPlayerStats(f)
                 /\ ~ (Exists(tables, "FactBatting") /\ Exists(tables, "DimPlayer")))
                    => answer'[f] = Outcome("player", "empty", {})
             /\ (/\ QueryTeamPerformance(f)
                 /\ ~ (Exists(tables, "FactGameOutcomes") /\ Exists(tables, "DimTeam")))
                    => answer'[f] = Outcome("team", "absent", {})]_vars

\* A build made FactBatting but not DimPlayer; the player query gave [].
C11_Witness ==
    /\ pc[1] = "Returned"
    /\ conn[1] = "open"
    /\ Exists(tables, "FactBatting")
    /\ ~ Exists(tables, "DimPlayer")
    /\ answer[1] = Outcome("player", "empty", {})

\* A game a team did not play against itself.
TwoSided(g) == SqlEqTxt(g.visiting_team_id, g.home_team_id) # "T"

\* C15: when query_team_performance returns a result over a
\* FactGameOutcomes in which no game has one team on both sides, then
\* wins + losses + ties = games_played, for every team and season filter.
C15_TeamAccounting ==
    [][\A f \in Solo :
          (/\ QueryTeamPerformance(f)
           /\ answer'[f].res = "value"
           /\ \A g \in DOMAIN tables["FactGameOutcomes"].rows : TwoSided(g))
              => \A r \in answer'[f].val :
                     r.wins + r.losses + r.ties = r.games_played]_vars

\* Team A won one game and lost one whose visiting score is NULL.
C15_Witness ==
    /\ answer[1].op = "team"
    /\ answer[1].res = "value"
    /\ Exists(tables, "FactGameOutcomes")
    /\ \A g \in DOMAIN tables["FactGameOutcomes"].rows : TwoSided(g)
    /\ \E g \in DOMAIN tables["FactGameOutcomes"].rows : g.visiting_runs = NullInt
    /\ \E r \in answer[1].val :
          r.team_id = "A" /\ r.games_played = 2 /\ r.wins = 1 /\ r.losses = 1

\* C16: a call of build_data_warehouse returns with the connection closed;
\* after it only connect() opens one; a read query without an open
\* connection raises and returns nothing, so a query returns rows or a
\* value only on a connection opened after the build.
C16_ReconnectBeforeQuery ==
    [][\A f \in Solo :
          /\ (pc[f] # "Returned" /\ pc'[f] = "Returned") => conn'[f] = "closed"
          /\ (pc'[f] = pc[f] /\ conn[f] # "open" /\ conn'[f] = "open") => Connect(f)
          /\ ((QueryPlayerStats(f) \/ QueryTeamPerformance(f)) /\ conn[f] # "open")
                => /\ answer'[f].val = {}
                   /\ answer'[f].res =
                         IF conn[f] = "closed" THEN "ProgrammingError" ELSE "AttributeError"
          /\ (answer'[f] # answer[f] /\ answer'[f].res \in {"rows", "value"})
                => conn[f] = "open"]_vars

\* The warehouse is built, the connection closed, and the query raised.
C16_Witness ==
    /\ pc[1] = "Returned"
    /\ conn[1] = "closed"
    /\ DestTables \subseteq DOMAIN tables
    /\ BagCardinality(tables["FactBatting"].rows) > 0
    /\ answer[1] = Outcome("player", "ProgrammingError", {})

(***************************************************************************)
(* Two facades building over the same store.  Each statement is its own    *)
(* transaction (line 30), so the statements of the two calls interleave.   *)
(***************************************************************************)
RECURSIVE DropAll(_, _)
DropAll(T, names) ==
    IF names = {} THEN T
    ELSE LET n == CHOOSE x \in names : TRUE IN DropAll(ExecDrop(T, n), names \ {n})

\* The loop of lines 198-211, run to its end.
RECURSIVE InsertDates(_, _, _)
InsertDates(T, cur, max) ==
    IF DateLeq(cur, max) THEN InsertDates(StmtInsertDate(T, cur), NextDay(cur), max) ELSE T

\* _create_fact_tables (lines 215-321), run to its end.
FactStage(T) ==
    StmtFactGameOutcomes(StmtFactPitching(StmtFactBatting(DropAll(T, FactTables))))

\* build_data_warehouse (lines 37-65) run from its first statement to its
\* last with no other statement in between.
ExclusiveBuild(T) ==
    IF MissingTables(T) # << >> THEN T
    ELSE LET D == StmtDimGame(StmtDimTeam(StmtDimPlayer(DropAll(T, DimTables))))
             b == ParseBounds(QueryDateBounds(D))
         IN IF b.res = "TypeError" THEN D
            ELSE IF b.res = "warn" THEN FactStage(D)
            ELSE IF ~ ValidYmd(b.max) THEN StmtCreateDimDate(D)
            ELSE FactStage(InsertDates(StmtCreateDimDate(D), b.min, b.max))

\* The statements that keep the write lock of the store the longest: the
\* CREATE TABLE ... AS SELECT statements that join an event table (one
\* row per player and game) with gameinfo.
LongStatements == {"CreateFactBatting", "CreateFactPitching"}

\* The connection of line 12 waits the default timeout for the lock; a
\* statement of f that waited longer for the statement another instance
\* is executing fails with sqlite3.OperationalError (database is locked).
\* Of the statements that can time out this way, the model lets the long
\* ones do so, each waiting for a long one.
LockHeld(f) ==
    /\ pc[f] \in LongStatements
    /\ \E g \in Instances \ {f} : conn[g] = "open" /\ pc[g] \in LongStatements

\* execute_query (lines 32-35) of a CREATE TABLE ... AS SELECT that
\* failed on the lock: the message is printed, None is returned, the store
\* is as it was and the builder goes on with its next statement.
BusyCreate(f) ==
    \/ CreateAs(f, "CreateFactBatting", "FactBatting", tables, "CreateFactPitching")
    \/ CreateAs(f, "CreateFactPitching", "FactPitching", tables, "CreateFactGameOutcomes")

Busy(f) ==
    /\ LockHeld(f)
    /\ locked' = TRUE
    /\ BusyCreate(f)

\* Stores before a first build, and stores an exclusive build has left.
ConcurrentStores ==
    LET base == {Sources(DefaultRows),
                 Sources([DefaultRows EXCEPT !.gameinfo = EmptyBag])}
    IN base \cup {ExclusiveBuild(s) : s \in base}

InitConcurrent == (\E T \in ConcurrentStores : WarehouseInit(T)) /\ CombinerOff

\* The facade has not called build_data_warehouse yet.
FirstCall(f) == builds[f] = 0

\* Each of the two facades makes one call.
NextConcurrent ==
    \E f \in Instances :
        \/ Step(f) /\ (AtRest(f) => FirstCall(f))
        \/ Busy(f)

SpecConcurrent == InitConcurrent /\ [][NextConcurrent]_vars

(***************************************************************************)
(* Claim about concurrent builds.                                          *)
(***************************************************************************)
\* Both facades are between calls and a build has been made.
BuildsOver == (\A f \in Instances : AtRest(f)) /\ (\E f \in Instances : builds[f] > 0)

\* A destination table is absent, or differs from the exclusive build's.
Corrupted == Dest(tables) # Dest(ExclusiveBuild(Src(tables)))

\* C14: two facades building over the same store with unchanged sources
\* can leave it corrupted once both calls are over (the witness below);
\* this happens only when the calls overlapped and a statement of one
\* failed on the lock the other held.  Calls that do not overlap, and
\* overlapping calls whose statements all ran, leave what an exclusive
\* build leaves.
C14_ConcurrentBuilds ==
    (BuildsOver /\ Corrupted) => (overlapped /\ locked)

\* Both calls have closed and FactBatting, which an exclusive build
\* creates, is absent.
C14_Witness ==
    /\ \A f \in Instances : pc[f] = "Returned" /\ conn[f] = "closed" /\ builds[f] = 1
    /\ overlapped
    /\ Corrupted
    /\ ~ Exists(tables, "FactBatting")
    /\ Exists(ExclusiveBuild(Src(tables)), "FactBatting")
    /\ DestTables \ {"FactBatting"} \subseteq DOMAIN tables
====
